---- MODULE Spec2Model ----
(***************************************************************************)
(* Document-series registry and correlative allocator of the customers     *)
(* app: DocumentSeries rows, the DocumentSeriesForm validation, the        *)
(* create / delete views and DocumentSeries.get_next_correlative.          *)
(*                                                                         *)
(* A series code is a sequence of one-character strings, a correlative     *)
(* string is a sequence of digit characters.  Every request handler and    *)
(* every caller of get_next_correlative is a process; a process touches    *)
(* the table only in the steps that issue a query.                         *)
(***************************************************************************)
EXTENDS Integers, Sequences, FiniteSets, TLC

\* ------------------------------------------------------------------ bounds
MaxSeries == 2          \* rows the series table may hold
MaxCalls == 3           \* get_next_correlative calls started in one run

Procs == {"p1", "p2"}
\* The processes that send delete requests.
Operators == {"p1"}

\* ------------------------------------------------------- program constants
CorrelativeWidth == 8
CodeLength == 4
DefaultCorrelative == 1

DocumentTypeChoices == {"01", "03", "07", "08", "09"}

\* Companies and their branches (Branch.company).
Companies == {"co1", "co2"}
BranchCompany == [b1 |-> "co1", b2 |-> "co2"]
Branches == DOMAIN BranchCompany

None == [none |-> TRUE]

\* ------------------------------------------------------------- characters
UpperLetters == {"F", "B", "T", "A"}
LowerLetters == {"f", "b", "t"}
Digits == {"0", "1", "2", "3", "4", "5", "6", "7", "8", "9"}

\* str.upper() on one character.
UpperChar(c) ==
    CASE c = "f" -> "F"
      [] c = "b" -> "B"
      [] c = "t" -> "T"
      [] OTHER -> c

\* str.upper()
Upper(s) == [i \in 1..Len(s) |-> UpperChar(s[i])]

\* str.isalpha() of a one-character string.
IsAlpha(c) == c \in UpperLetters \cup LowerLetters

\* str.isdigit(): non-empty and every character a digit.
IsDigit(s) == Len(s) > 0 /\ \A i \in 1..Len(s) : s[i] \in Digits

\* str.startswith(prefix) for a one-character prefix.
StartsWith(s, prefix) == Len(s) >= 1 /\ s[1] = prefix

\* ------------------------------------------------------------- str, zfill
DigitChar(d) ==
    CASE d = 0 -> "0" [] d = 1 -> "1" [] d = 2 -> "2" [] d = 3 -> "3"
      [] d = 4 -> "4" [] d = 5 -> "5" [] d = 6 -> "6" [] d = 7 -> "7"
      [] d = 8 -> "8" [] d = 9 -> "9"

RECURSIVE Str(_)
\* str(n) of a non-negative integer: its decimal digits.
Str(n) == IF n < 10 THEN <<DigitChar(n)>>
          ELSE Str(n \div 10) \o <<DigitChar(n % 10)>>

RECURSIVE ZFill(_, _)
\* str.zfill(width): pad on the left with "0" up to width; longer strings
\* are returned as they are.
ZFill(s, width) == IF Len(s) >= width THEN s ELSE ZFill(<<"0">> \o s, width)

\* str(correlative) returned without zfill.
FormatCorrelativeUnpadded(n) == Str(n)

\* The value get_next_correlative returns for counter value n.
FormatCorrelative(n) == ZFill(Str(n), CorrelativeWidth)

\* ------------------------------------------------------ DocumentSeriesForm
\* The conventions with the receipt sharing the prefixes of the notes.
ConventionsReceiptAsNote ==
    [t \in DocumentTypeChoices |->
        CASE t = "01" -> {"F"}
          [] t \in {"03", "07", "08"} -> {"F", "B"}
          [] t = "09" -> {"T"}]

\* SUNAT series naming conventions: the prefixes clean() accepts per type.
Conventions ==
    [t \in DocumentTypeChoices |->
        CASE t = "01" -> {"F"}
          [] t = "03" -> {"B"}
          [] t = "07" -> {"F", "B"}
          [] t = "08" -> {"F", "B"}
          [] t = "09" -> {"T"}]

MaxFieldLength == 10

\* Field cleaning with current_correlative not required.
FieldErrorsCorrelativeOptional(data) ==
    (IF data.document_type \in DocumentTypeChoices THEN {} ELSE {"document_type"})
    \cup (IF Len(data.series_number) \in 1..MaxFieldLength THEN {} ELSE {"series_number"})
    \cup (IF Len(data.current_correlative) = 1 /\ data.current_correlative[1] < 0
          THEN {"current_correlative"} ELSE {})

\* Submitted form data: a missing document_type is "", a missing
\* series_number is <<>>, current_correlative is <<n>> or <<>> when missing.
\* Fields whose own cleaning fails (required, choices, max_length, the
\* minimum of a PositiveIntegerField).
FieldErrors(data) ==
    (IF data.document_type \in DocumentTypeChoices THEN {} ELSE {"document_type"})
    \cup (IF Len(data.series_number) \in 1..MaxFieldLength THEN {} ELSE {"series_number"})
    \cup (IF Len(data.current_correlative) = 1 /\ data.current_correlative[1] >= 0
          THEN {} ELSE {"current_correlative"})

\* clean() with the prefix rule only, the length and shape checks left out.
CleanErrorPrefixOnly(data) ==
    IF "document_type" \in FieldErrors(data) \/ "series_number" \in FieldErrors(data)
    THEN "none"
    ELSE IF ~ \E prefix \in Conventions[data.document_type] :
                 StartsWith(Upper(data.series_number), prefix)
    THEN "prefix"
    ELSE "none"

\* DocumentSeriesForm.clean: the non-field error it raises, "none" if it
\* raises nothing.  The checks run in the order of the code: prefix, length,
\* shape.
CleanError(data) ==
    IF "document_type" \in FieldErrors(data) \/ "series_number" \in FieldErrors(data)
    THEN "none"
    ELSE LET series_number == Upper(data.series_number)
             required_prefix == Conventions[data.document_type]
         IN  IF ~ \E prefix \in required_prefix : StartsWith(series_number, prefix)
             THEN "prefix"
             ELSE IF Len(series_number) # CodeLength
             THEN "length"
             ELSE IF ~IsAlpha(series_number[1]) \/ ~IsDigit(SubSeq(series_number, 2, Len(series_number)))
             THEN "format"
             ELSE "none"

\* form.is_valid()
IsValid(data) == FieldErrors(data) = {} /\ CleanError(data) = "none"

\* cleaned_data["series_number"] left as submitted.
CleanedSeriesNumberAsSubmitted(data) ==
    IF "series_number" \in FieldErrors(data) THEN <<>> ELSE data.series_number

\* cleaned_data["series_number"] after clean(): uppercased when clean() got
\* both a document type and a series number, absent (<<>>) when the field
\* itself was rejected.
CleanedSeriesNumber(data) ==
    IF "series_number" \in FieldErrors(data) THEN <<>>
    ELSE IF "document_type" \in FieldErrors(data) THEN data.series_number
    ELSE Upper(data.series_number)

\* form.errors: the rejected fields, and "__all__" for the error of clean().
FormErrors(data) ==
    FieldErrors(data) \cup (IF CleanError(data) = "none" THEN {} ELSE {"__all__"})

\* ------------------------------------------------------------------ state
VARIABLES
    db,          \* the DocumentSeries table: row pk is db[pk]
    pc,          \* where each process is
    self,        \* the DocumentSeries instance a process holds in memory
    correlative, \* local variable of get_next_correlative
    series,      \* the instance the create view builds from the form
    response,    \* what the last operation of a process returned
    log,         \* history: every value get_next_correlative returned
    initial,     \* history: the counter each row was registered with
    call,        \* history: what a call in progress met (see NoCall)
    form,        \* a DocumentSeriesForm: its data and, once checked, its outcome
    companies,   \* the Company table: row pk is companies[pk]
    branches,    \* the Branch table: row pk is branches[pk]
    users,       \* the User table: the row of every pk that exists
    result       \* what the last company, branch or user operation answered

vars == <<db, pc, self, correlative, series, response, log, initial, call, form,
          companies, branches, users, result>>

\* removed: the row was removed when the call began; raced: another call on
\* the same row was in progress at some time during the call.
NoCall == [removed |-> FALSE, raced |-> FALSE]

\* A form that has not been validated.
UnboundForm(data) ==
    [data |-> data, checked |-> FALSE, is_valid |-> FALSE, errors |-> {},
     series_number |-> <<>>]

NoData == [document_type |-> "", series_number |-> <<>>, current_correlative |-> <<>>]

Pks == 1..Len(db)

\* The unique_together columns of a row or an unsaved instance.
Triple(r) == <<r.branch, r.document_type, r.series_number>>

\* A manager that does not filter on is_removed.
ActiveIncludingRemoved(pk) == pk \in Pks

\* DocumentSeries.objects (SoftDeletableManager): rows not removed.
Active(pk) == pk \in Pks /\ ~db[pk].is_removed

\* get_next_correlative calls started so far.
CallsStarted == Len(log) + Cardinality({p \in Procs : pc[p] \in {"incr", "save"}})

Init ==
    /\ db = <<>>
    /\ pc = [p \in Procs |-> "idle"]
    /\ self = [p \in Procs |-> None]
    /\ correlative = [p \in Procs |-> 0]
    /\ series = [p \in Procs |-> None]
    /\ response = [p \in Procs |-> None]
    /\ log = <<>>
    /\ initial = <<>>
    /\ call = [p \in Procs |-> NoCall]
    /\ form = UnboundForm(NoData)
    /\ companies = <<>>
    /\ branches = <<>>
    /\ users = <<>>
    /\ result = None

\* ------------------------------------------------- obtaining a reference
\* DocumentSeries.objects.get(pk=pk): the caller's lookup of an active row;
\* DoesNotExist leaves the caller without an instance.
LoadSeries(p, pk) ==
    /\ pc[p] = "idle"
    /\ self' = [self EXCEPT ![p] =
           IF Active(pk)
           THEN [pk |-> pk,
                 current_correlative |-> db[pk].current_correlative,
                 loaded |-> db[pk].current_correlative,
                 calls |-> 0]
           ELSE None]
    /\ UNCHANGED <<db, pc, correlative, series, response, log, initial, call, form,
                 companies, branches, users, result>>

\* --------------------------------------------------- get_next_correlative
\* correlative = self.current_correlative
\* Calls on the row of p's instance that other processes have in progress.
InProgress(p) ==
    {q \in Procs \ {p} : pc[q] \in {"incr", "save"} /\ self[q].pk = self[p].pk}

GetNextRead(p) ==
    /\ pc[p] = "idle"
    /\ self[p] # None
    /\ CallsStarted < MaxCalls
    /\ correlative' = [correlative EXCEPT ![p] = self[p].current_correlative]
    /\ pc' = [pc EXCEPT ![p] = "incr"]
    /\ call' = [q \in Procs |->
                   IF q = p
                   THEN [removed |-> db[self[p].pk].is_removed,
                         raced |-> InProgress(p) # {}]
                   ELSE IF q \in InProgress(p)
                   THEN [call[q] EXCEPT !.raced = TRUE]
                   ELSE call[q]]
    /\ UNCHANGED <<db, self, series, response, log, initial, form,
                 companies, branches, users, result>>

\* self.current_correlative += 1
GetNextIncr(p) ==
    /\ pc[p] = "incr"
    /\ self' = [self EXCEPT ![p].current_correlative = @ + 1]
    /\ pc' = [pc EXCEPT ![p] = "save"]
    /\ UNCHANGED <<db, correlative, series, response, log, initial, call, form,
                 companies, branches, users, result>>

\* An UPDATE without the WHERE on the primary key.
SaveCorrelativeAllRows(table, instance) ==
    [pk \in 1..Len(table) |->
        [table[pk] EXCEPT !.current_correlative = instance.current_correlative]]

\* self.save() of every field: the instance was loaded as an active row.
SaveAllFields(table, instance) ==
    [table EXCEPT ![instance.pk].current_correlative = instance.current_correlative,
                  ![instance.pk].is_removed = FALSE]

\* self.save(update_fields=["current_correlative"]): UPDATE of the one
\* column of the row with the instance's pk, whatever its is_removed.
SaveCorrelative(table, instance) ==
    [table EXCEPT ![instance.pk].current_correlative = instance.current_correlative]

\* self.save(update_fields=[...]); return str(correlative).zfill(8)
GetNextSave(p) ==
    /\ pc[p] = "save"
    /\ db' = SaveCorrelative(db, self[p])
    /\ log' = Append(log, [series |-> self[p].pk,
                           by |-> p,
                           number |-> correlative[p],
                           value |-> FormatCorrelative(correlative[p]),
                           loaded |-> self[p].loaded,
                           nth |-> self[p].calls + 1,
                           removed |-> call[p].removed,
                           raced |-> call[p].raced])
    /\ self' = [self EXCEPT ![p].calls = @ + 1]
    /\ correlative' = [correlative EXCEPT ![p] = 0]
    /\ call' = [call EXCEPT ![p] = NoCall]
    /\ pc' = [pc EXCEPT ![p] = "idle"]
    /\ UNCHANGED <<series, response, initial, form,
                 companies, branches, users, result>>

\* ------------------------------------------------ DocumentSeriesCreateView
\* Values a create request may carry.
PostBranches == Branches
PostTypes == {"01", "03"}
PostCodes == {<<"F", "0", "0", "1">>, <<"f", "0", "0", "1">>, <<"B", "0", "0", "1">>}
PostCorrelatives == {<<1>>}

\* Branches that were removed (is_removed), with their companies: the
\* manager of Branch.objects leaves them out.
RemovedBranchCompany == [b3 |-> "co1"]
RemovedBranches == DOMAIN RemovedBranchCompany
\* A primary key no branch has.
UnknownBranches == {"b9"}

\* A lookup by primary key alone.
BranchFoundAnyCompany(company_pk, branch_pk) == branch_pk \in Branches

\* Branch.objects.get(pk=branch_pk, company_id=company_pk)
BranchFound(company_pk, branch_pk) ==
    branch_pk \in Branches /\ BranchCompany[branch_pk] = company_pk

\* post() up to series.save(): branch lookup, form validation,
\* form.save(commit=False), series.branch = branch.
CreatePost(p, company_pk, branch_pk, data) ==
    /\ pc[p] = "idle"
    /\ Len(db) + Cardinality({q \in Procs : pc[q] = "insert"}) < MaxSeries
    /\ IF ~BranchFound(company_pk, branch_pk)
       THEN /\ response' = [response EXCEPT ![p] = [op |-> "create", status |-> 404, body |-> "message"]]
            /\ UNCHANGED <<pc, series>>
       ELSE IF ~IsValid(data)
       THEN /\ response' = [response EXCEPT ![p] = [op |-> "create", status |-> 400, body |-> "errors"]]
            /\ UNCHANGED <<pc, series>>
       ELSE /\ series' = [series EXCEPT ![p] =
                   [pk |-> 0,
                    branch |-> branch_pk,
                    document_type |-> data.document_type,
                    series_number |-> CleanedSeriesNumber(data),
                    current_correlative |-> data.current_correlative[1],
                    seen |-> Len(db)]]
            /\ pc' = [pc EXCEPT ![p] = "insert"]
            /\ UNCHANGED response
    /\ UNCHANGED <<db, self, correlative, log, initial, call, form,
                 companies, branches, users, result>>

\* A table without the constraint.
NoUniqueConstraint(table, instance) == FALSE

\* A uniqueness check made against the rows present when the form was
\* validated, not by the INSERT.
ViolatesUniqueWhenValidated(table, instance) ==
    \E pk \in 1..instance.seen : Triple(table[pk]) = Triple(instance)

\* A constraint on (document_type, series_number) alone.
ViolatesUniqueAcrossBranches(table, instance) ==
    \E pk \in 1..Len(table) :
        /\ table[pk].document_type = instance.document_type
        /\ table[pk].series_number = instance.series_number

\* A constraint on the rows that are not removed.
ViolatesUniqueAmongActive(table, instance) ==
    \E pk \in 1..Len(table) :
        ~table[pk].is_removed /\ Triple(table[pk]) = Triple(instance)

\* The unique_together constraint of the table: the INSERT of a row whose
\* (branch, document_type, series_number) some row has, removed or not,
\* raises IntegrityError.
ViolatesUnique(table, instance) ==
    \E pk \in 1..Len(table) : Triple(table[pk]) = Triple(instance)

\* series.save() with the IntegrityError answered like a success.
CreateInsertSwallowed(p) ==
    /\ pc[p] = "insert"
    /\ IF ViolatesUnique(db, series[p])
       THEN UNCHANGED <<db, initial, series>>
       ELSE /\ db' = Append(db, [branch |-> series[p].branch,
                                 document_type |-> series[p].document_type,
                                 series_number |-> series[p].series_number,
                                 current_correlative |-> series[p].current_correlative,
                                 is_removed |-> FALSE])
            /\ initial' = Append(initial, series[p].current_correlative)
            /\ series' = [series EXCEPT ![p].pk = Len(db) + 1]
    /\ response' = [response EXCEPT ![p] = [op |-> "create", status |-> 200, body |-> "series"]]
    /\ pc' = [pc EXCEPT ![p] = "idle"]
    /\ UNCHANGED <<self, correlative, log, call, form,
                 companies, branches, users, result>>

\* series.save() and the response of post().
CreateInsert(p) ==
    /\ pc[p] = "insert"
    /\ IF ViolatesUnique(db, series[p])
       THEN /\ response' = [response EXCEPT ![p] = [op |-> "create", status |-> 400, body |-> "message"]]
            /\ UNCHANGED <<db, initial, series>>
       ELSE /\ db' = Append(db, [branch |-> series[p].branch,
                                 document_type |-> series[p].document_type,
                                 series_number |-> series[p].series_number,
                                 current_correlative |-> series[p].current_correlative,
                                 is_removed |-> FALSE])
            /\ initial' = Append(initial, series[p].current_correlative)
            /\ series' = [series EXCEPT ![p].pk = Len(db) + 1]
            /\ response' = [response EXCEPT ![p] = [op |-> "create", status |-> 200, body |-> "series"]]
    /\ pc' = [pc EXCEPT ![p] = "idle"]
    /\ UNCHANGED <<self, correlative, log, call, form,
                 companies, branches, users, result>>

\* ------------------------------------------------ DocumentSeriesDeleteView
\* A lookup by primary key alone.
SeriesFoundAnyBranch(company_pk, branch_pk, pk) == Active(pk)

\* DocumentSeries.objects.get(pk=pk, branch_id=..., branch__company_id=...)
SeriesFound(company_pk, branch_pk, pk) ==
    /\ Active(pk)
    /\ db[pk].branch = branch_pk
    /\ BranchFound(company_pk, branch_pk)

\* delete(): the lookup, then series.delete(), which sets is_removed; the
\* request as a whole, with no other caller between its two accesses.
DeleteSeries(p, company_pk, branch_pk, pk) ==
    /\ pc[p] = "idle"
    /\ IF SeriesFound(company_pk, branch_pk, pk)
       THEN /\ db' = [db EXCEPT ![pk].is_removed = TRUE]
            /\ response' = [response EXCEPT ![p] = [op |-> "delete", status |-> 200, body |-> "message"]]
       ELSE /\ response' = [response EXCEPT ![p] = [op |-> "delete", status |-> 404, body |-> "message"]]
            /\ UNCHANGED db
    /\ UNCHANGED <<pc, self, correlative, series, log, initial, call, form,
                 companies, branches, users, result>>

\* delete() as the two database accesses it makes, for callers that run
\* beside it. First the lookup: the view holds a copy of the row.
DeleteLookup(p, company_pk, branch_pk, pk) ==
    /\ pc[p] = "idle"
    /\ IF SeriesFound(company_pk, branch_pk, pk)
       THEN /\ series' = [series EXCEPT ![p] =
                   [pk |-> pk,
                    branch |-> db[pk].branch,
                    document_type |-> db[pk].document_type,
                    series_number |-> db[pk].series_number,
                    current_correlative |-> db[pk].current_correlative]]
            /\ pc' = [pc EXCEPT ![p] = "delete"]
            /\ UNCHANGED response
       ELSE /\ response' = [response EXCEPT ![p] = [op |-> "delete", status |-> 404, body |-> "message"]]
            /\ UNCHANGED <<series, pc>>
    /\ UNCHANGED <<db, self, correlative, log, initial, call, form,
                 companies, branches, users, result>>

\* series.delete() of SoftDeletableModel: is_removed = True and save(),
\* an UPDATE of every column of the row from the copy the view holds.
DeleteSave(p) ==
    /\ pc[p] = "delete"
    /\ db' = [db EXCEPT ![series[p].pk] =
                 [branch |-> series[p].branch,
                  document_type |-> series[p].document_type,
                  series_number |-> series[p].series_number,
                  current_correlative |-> series[p].current_correlative,
                  is_removed |-> TRUE]]
    /\ response' = [response EXCEPT ![p] = [op |-> "delete", status |-> 200, body |-> "message"]]
    /\ pc' = [pc EXCEPT ![p] = "idle"]
    /\ UNCHANGED <<self, correlative, series, log, initial, call, form,
                 companies, branches, users, result>>

\* ------------------------------------------------------------ specifications
PostData == [document_type : PostTypes, series_number : PostCodes,
             current_correlative : PostCorrelatives]

\* The registry: create and delete requests against an empty table.
NextCreate ==
    \/ \E p \in Procs, c \in Companies, b \in PostBranches, d \in PostData :
           CreatePost(p, c, b, d)
    \/ \E p \in Procs : CreateInsert(p)
    \/ \E p \in Operators, c \in Companies, b \in Branches, pk \in 1..MaxSeries :
           DeleteSeries(p, c, b, pk)

SpecCreate == Init /\ [][NextCreate]_vars

\* The allocator: callers of get_next_correlative and delete requests
\* against a table that holds two registered series.
TestCorrelative == 5

RegisteredRow(branch, document_type, series_number, current_correlative) ==
    [branch |-> branch, document_type |-> document_type,
     series_number |-> series_number,
     current_correlative |-> current_correlative, is_removed |-> FALSE]

InitAlloc ==
    /\ db = <<RegisteredRow("b1", "01", <<"F", "0", "0", "1">>, TestCorrelative),
               RegisteredRow("b1", "03", <<"B", "0", "0", "1">>, DefaultCorrelative)>>
    /\ initial = [pk \in 1..Len(db) |-> db[pk].current_correlative]
    /\ pc = [p \in Procs |-> "idle"]
    /\ self = [p \in Procs |-> None]
    /\ correlative = [p \in Procs |-> 0]
    /\ series = [p \in Procs |-> None]
    /\ response = [p \in Procs |-> None]
    /\ log = <<>>
    /\ call = [p \in Procs |-> NoCall]
    /\ form = UnboundForm(NoData)
    /\ companies = <<>>
    /\ branches = <<>>
    /\ users = <<>>
    /\ result = None

\* Primary keys a lookup may name: the two rows and one that does not exist.
LookupPks == 1..3

NextAlloc ==
    \/ \E p \in Procs, pk \in LookupPks : LoadSeries(p, pk)
    \/ \E p \in Procs : GetNextRead(p)
    \/ \E p \in Procs : GetNextIncr(p)
    \/ \E p \in Procs : GetNextSave(p)
    \/ \E p \in Operators, c \in Companies, b \in Branches, pk \in LookupPks :
           DeleteSeries(p, c, b, pk)

SpecAlloc == InitAlloc /\ [][NextAlloc]_vars

\* The form on its own: one form per run, bound to any of the inputs below,
\* then validated.
MaxCodeLen == 5

FormChars == {"F", "B", "T", "A", "f", "0"}

RECURSIVE CodesOfLength(_)
CodesOfLength(n) ==
    IF n = 0 THEN {<<>>}
    ELSE {Append(s, c) : s \in CodesOfLength(n - 1), c \in FormChars}

FormCodes == UNION {CodesOfLength(n) : n \in 0..MaxCodeLen}

FormInputs ==
    [document_type : DocumentTypeChoices \cup {""},
     series_number : FormCodes,
     current_correlative : {<<1>>}]
    \cup
    [document_type : DocumentTypeChoices,
     series_number : {<<"F", "0", "0", "1">>, <<"f", "0", "0", "1">>,
                      <<"B", "0", "0", "1">>, <<"T", "0", "0", "1">>,
                      <<"F", "0", "1">>, <<"F", "A", "0", "1">>},
     current_correlative : {<<>>, <<-1>>, <<0>>, <<1>>, <<5>>}]

InitForm ==
    /\ db = <<>>
    /\ pc = [p \in Procs |-> "idle"]
    /\ self = [p \in Procs |-> None]
    /\ correlative = [p \in Procs |-> 0]
    /\ series = [p \in Procs |-> None]
    /\ response = [p \in Procs |-> None]
    /\ log = <<>>
    /\ initial = <<>>
    /\ call = [p \in Procs |-> NoCall]
    /\ \E data \in FormInputs : form = UnboundForm(data)
    /\ companies = <<>>
    /\ branches = <<>>
    /\ users = <<>>
    /\ result = None

\* form.is_valid(): field cleaning, then clean().
FormIsValid ==
    /\ ~form.checked
    /\ form' = [data |-> form.data,
                checked |-> TRUE,
                is_valid |-> IsValid(form.data),
                errors |-> FormErrors(form.data),
                series_number |-> CleanedSeriesNumber(form.data)]
    /\ UNCHANGED <<db, pc, self, correlative, series, response, log, initial, call,
                 companies, branches, users, result>>

\* The create view on an empty table for branch b1, after is_valid():
\* form.save(commit=False) builds the instance from cleaned_data (a field
\* the form did not clean keeps the model default), series.save() inserts it.
FormSave ==
    /\ form.checked /\ form.is_valid
    /\ db = <<>>
    /\ LET current_correlative ==
               IF Len(form.data.current_correlative) = 1
               THEN form.data.current_correlative[1]
               ELSE DefaultCorrelative
       IN  /\ db' = <<RegisteredRow("b1", form.data.document_type,
                                    form.series_number, current_correlative)>>
           /\ initial' = <<current_correlative>>
    /\ UNCHANGED <<pc, self, correlative, series, response, log, call, form,
                 companies, branches, users, result>>

NextForm == FormIsValid \/ FormSave

SpecForm == InitForm /\ [][NextForm]_vars

\* --------------------------------------------------- the permission gate
\* PermissionRequiredMixin in front of the two views: who may do what.
Users == {"admin", "registrar", "clerk", "anonymous"}
Authenticated == Users \ {"anonymous"}
UserPermissions ==
    [u \in Users |->
        CASE u = "admin" -> {"customers.add_documentseries",
                             "customers.delete_documentseries"}
          [] u = "registrar" -> {"customers.add_documentseries"}
          [] OTHER -> {}]

\* A gate that lets every user through.
HasPermissionAlways(user, permission) == TRUE

\* user.has_perms((permission_required,))
HasPermission(user, permission) == permission \in UserPermissions[user]

\* handle_no_permission(): PermissionDenied for a logged-in user, the
\* redirect to the login page otherwise; the view's method does not run.
Denied(p, user, op) ==
    /\ pc[p] = "idle"
    /\ response' = [response EXCEPT ![p] =
           [op |-> op,
            status |-> IF user \in Authenticated THEN 403 ELSE 302,
            body |-> "none"]]
    /\ UNCHANGED <<db, pc, self, correlative, series, log, initial, call, form,
                 companies, branches, users, result>>

\* dispatch() of DocumentSeriesCreateView for a POST of user.
CreateRequest(p, user, company_pk, branch_pk, data) ==
    IF HasPermission(user, "customers.add_documentseries")
    THEN CreatePost(p, company_pk, branch_pk, data)
    ELSE Denied(p, user, "create")

\* dispatch() of DocumentSeriesDeleteView for a DELETE of user.
DeleteRequest(p, user, company_pk, branch_pk, pk) ==
    IF HasPermission(user, "customers.delete_documentseries")
    THEN DeleteSeries(p, company_pk, branch_pk, pk)
    ELSE Denied(p, user, "delete")

\* The life of the series seen by one client: registrations, lookups,
\* get_next_correlative calls and removals, one after the other.
Clients == {"p1"}
LargeCorrelative == 10^CorrelativeWidth - 1
LifeBranches == {"b1"}
LifeData ==
    {[document_type |-> "01", series_number |-> <<"F", "0", "0", "1">>,
      current_correlative |-> <<LargeCorrelative>>],
     [document_type |-> "03", series_number |-> <<"B", "0", "0", "1">>,
      current_correlative |-> <<DefaultCorrelative>>],
     [document_type |-> "03", series_number |-> <<"F", "0", "0", "1">>,
      current_correlative |-> <<DefaultCorrelative>>]}

NextLife ==
    \/ \E p \in Clients, c \in Companies, b \in LifeBranches, d \in LifeData :
           CreatePost(p, c, b, d)
    \/ \E p \in Clients : CreateInsert(p)
    \/ \E p \in Clients, pk \in 1..(MaxSeries + 1) : LoadSeries(p, pk)
    \/ \E p \in Clients : GetNextRead(p)
    \/ \E p \in Clients : GetNextIncr(p)
    \/ \E p \in Clients : GetNextSave(p)
    \/ \E p \in Clients, c \in Companies, b \in LifeBranches, pk \in 1..(MaxSeries + 1) :
           DeleteSeries(p, c, b, pk)

SpecLife == Init /\ [][NextLife]_vars

\* The two views behind the gate: requests of any user, and the lookups of
\* a caller of the model layer.
NextGate ==
    \/ \E p \in Clients, u \in Users, c \in Companies, b \in LifeBranches, d \in LifeData :
           CreateRequest(p, u, c, b, d)
    \/ \E p \in Clients : CreateInsert(p)
    \/ \E p \in Clients, pk \in 1..(MaxSeries + 1) : LoadSeries(p, pk)
    \/ \E p \in Clients, u \in Users, c \in Companies, b \in Branches,
          pk \in 1..(MaxSeries + 1) :
           DeleteRequest(p, u, c, b, pk)

SpecGate == Init /\ [][NextGate]_vars

\* A delete request of the operator beside a caller of
\* get_next_correlative, on the table of the two registered series.
Allocators == Procs \ Operators

NextRace ==
    \/ \E p \in Allocators, pk \in LookupPks : LoadSeries(p, pk)
    \/ \E p \in Allocators : GetNextRead(p)
    \/ \E p \in Allocators : GetNextIncr(p)
    \/ \E p \in Allocators : GetNextSave(p)
    \/ \E p \in Operators, c \in Companies, b \in Branches, pk \in LookupPks :
           DeleteLookup(p, c, b, pk)
    \/ \E p \in Operators : DeleteSave(p)

SpecRace == InitAlloc /\ [][NextRace]_vars

\* ------------------------------------------------ companies and branches
MaxCompanies == 2
MaxBranches == 4

Rucs == {"20000000001", "20000000002"}
Domains == {"company-1", "company-2"}
\* Address and contact data of a company (BaseAddress, BaseContact).
TestContact ==
    [address |-> "Av. Test 123", phone |-> "123456789", email |-> "test@company.com"]
OtherContact ==
    [address |-> "Jr. Lima 456", phone |-> "987654321", email |-> "info@company.com"]
Contacts == {TestContact, OtherContact}
CompanyInputs ==
    {[ruc |-> "20000000001", domain |-> "company-1", contact |-> TestContact],
     [ruc |-> "20000000001", domain |-> "company-2", contact |-> OtherContact],
     [ruc |-> "20000000002", domain |-> "company-1", contact |-> OtherContact],
     [ruc |-> "20000000002", domain |-> "company-2", contact |-> OtherContact]}

SunatCodes == {<<"0", "0", "0", "0">>, <<"0", "0", "0", "1">>}
BranchInputs == SunatCodes \cup {<<"0", "1">>}

CompanyPks == 1..Len(companies)
BranchPks == 1..Len(branches)

\* Constraints that count the removed rows too.
ViolatesCompanyUnique(table, instance, pk) ==
    \E k \in 1..Len(table) :
        /\ k # pk
        /\ (table[k].ruc = instance.ruc \/ table[k].domain = instance.domain)

\* The two conditional UniqueConstraints of Company: among the rows with
\* is_removed = False no two have one ruc, no two have one domain. The row
\* written is row pk (0 for an INSERT).
ViolatesCompanyConstraints(table, instance, pk) ==
    /\ ~instance.is_removed
    /\ \E k \in 1..Len(table) :
           /\ k # pk
           /\ ~table[k].is_removed
           /\ (table[k].ruc = instance.ruc \/ table[k].domain = instance.domain)

\* A handler that creates its branch at every save of the company.
CreatePrincipalBranchAtEverySave(table, company_pk, instance, created) ==
    Append(table, [company |-> company_pk,
                   name |-> "Principal",
                   sunat_code |-> <<"0", "0", "0", "0">>,
                   address |-> instance.address,
                   phone |-> instance.phone,
                   email |-> instance.email,
                   is_removed |-> FALSE])

\* create_principal_branch, the post_save handler of Company.
CreatePrincipalBranch(table, company_pk, instance, created) ==
    IF created
    THEN Append(table, [company |-> company_pk,
                        name |-> "Principal",
                        sunat_code |-> <<"0", "0", "0", "0">>,
                        address |-> instance.address,
                        phone |-> instance.phone,
                        email |-> instance.email,
                        is_removed |-> FALSE])
    ELSE table

CompanyRow(data) ==
    [ruc |-> data.ruc, domain |-> data.domain,
     address |-> data.contact.address, phone |-> data.contact.phone,
     email |-> data.contact.email, is_removed |-> FALSE]

Answer(op, error) == [op |-> op, error |-> error]

\* Saving a new company: the INSERT, then post_save with created = True.
CompanyCreate(data) ==
    /\ Len(companies) < MaxCompanies
    /\ IF ViolatesCompanyConstraints(companies, CompanyRow(data), 0)
       THEN /\ result' = Answer("company_create", "IntegrityError")
            /\ UNCHANGED <<companies, branches>>
       ELSE /\ companies' = Append(companies, CompanyRow(data))
            /\ branches' = CreatePrincipalBranch(branches, Len(companies) + 1,
                                                 CompanyRow(data), TRUE)
            /\ result' = Answer("company_create", "none")
    /\ UNCHANGED <<db, pc, self, correlative, series, response, log, initial, call, form, users>>

\* Saving an existing company with another ruc and other contact data (the
\* fields of CompanyUpdateForm): the UPDATE, then post_save with
\* created = False.
CompanyUpdate(pk, data) ==
    /\ pk \in CompanyPks
    /\ ~companies[pk].is_removed
    /\ LET instance == [CompanyRow(data) EXCEPT !.domain = companies[pk].domain]
       IN  IF ViolatesCompanyConstraints(companies, instance, pk)
           THEN /\ result' = Answer("company_update", "IntegrityError")
                /\ UNCHANGED <<companies, branches>>
           ELSE /\ companies' = [companies EXCEPT ![pk] = instance]
                /\ branches' = CreatePrincipalBranch(branches, pk, instance, FALSE)
                /\ result' = Answer("company_update", "none")
    /\ UNCHANGED <<db, pc, self, correlative, series, response, log, initial, call, form, users>>

\* company.delete() of SoftDeletableModel: is_removed = True and save(),
\* which sends post_save with created = False.
CompanyDelete(pk) ==
    /\ pk \in CompanyPks
    /\ ~companies[pk].is_removed
    /\ companies' = [companies EXCEPT ![pk].is_removed = TRUE]
    /\ branches' = CreatePrincipalBranch(branches, pk,
                                         [companies[pk] EXCEPT !.is_removed = TRUE], FALSE)
    /\ result' = Answer("company_delete", "none")
    /\ UNCHANGED <<db, pc, self, correlative, series, response, log, initial, call, form, users>>

\* A table without the constraint on (company, sunat_code).
NoBranchConstraint(table, instance, pk) == FALSE

\* unique_together = ("company", "sunat_code") of Branch, over every row.
ViolatesBranchUnique(table, instance, pk) ==
    \E k \in 1..Len(table) :
        /\ k # pk
        /\ table[k].company = instance.company
        /\ table[k].sunat_code = instance.sunat_code

SunatCodeLength == 4

\* BranchForm.clean_sunat_code: digits only, exactly 4 of them.
CleanSunatCode(sunat_code) ==
    /\ IsDigit(sunat_code)
    /\ Len(sunat_code) = SunatCodeLength

BranchRow(company_pk, sunat_code) ==
    [company |-> company_pk, name |-> "Sucursal Lima", sunat_code |-> sunat_code,
     address |-> "", phone |-> "", email |-> "", is_removed |-> FALSE]

\* BranchCreateView: the form, then branch.company_id = company_pk and
\* branch.save(). The company is not looked up: a pk without a row breaks
\* the foreign key, a removed company is accepted.
BranchCreate(company_pk, sunat_code) ==
    /\ Len(branches) < MaxBranches
    /\ IF ~CleanSunatCode(sunat_code)
       THEN /\ result' = Answer("branch_create", "sunat_code")
            /\ UNCHANGED branches
       ELSE IF company_pk \notin CompanyPks
               \/ ViolatesBranchUnique(branches, BranchRow(company_pk, sunat_code), 0)
       THEN /\ result' = Answer("branch_create", "IntegrityError")
            /\ UNCHANGED branches
       ELSE /\ branches' = Append(branches, BranchRow(company_pk, sunat_code))
            /\ result' = Answer("branch_create", "none")
    /\ UNCHANGED <<db, pc, self, correlative, series, response, log, initial, call, form,
                   companies, users>>

\* BranchUpdateView: the form on an active branch, then branch.save().
BranchUpdate(pk, sunat_code) ==
    /\ pk \in BranchPks
    /\ ~branches[pk].is_removed
    /\ IF ~CleanSunatCode(sunat_code)
       THEN /\ result' = Answer("branch_update", "sunat_code")
            /\ UNCHANGED branches
       ELSE IF ViolatesBranchUnique(branches, [branches[pk] EXCEPT !.sunat_code = sunat_code], pk)
       THEN /\ result' = Answer("branch_update", "IntegrityError")
            /\ UNCHANGED branches
       ELSE /\ branches' = [branches EXCEPT ![pk].sunat_code = sunat_code]
            /\ result' = Answer("branch_update", "none")
    /\ UNCHANGED <<db, pc, self, correlative, series, response, log, initial, call, form,
                   companies, users>>

\* branch.delete() of SoftDeletableModel.
BranchDelete(pk) ==
    /\ pk \in BranchPks
    /\ ~branches[pk].is_removed
    /\ branches' = [branches EXCEPT ![pk].is_removed = TRUE]
    /\ result' = Answer("branch_delete", "none")
    /\ UNCHANGED <<db, pc, self, correlative, series, response, log, initial, call, form,
                   companies, users>>

\* Companies created, saved again and removed, each with the branch its
\* creation gave it.
NextCompanies ==
    \/ \E data \in CompanyInputs : CompanyCreate(data)
    \/ \E pk \in 1..MaxCompanies, data \in CompanyInputs : CompanyUpdate(pk, data)
    \/ \E pk \in 1..MaxCompanies : CompanyDelete(pk)

SpecCompanies == Init /\ [][NextCompanies]_vars

\* The branches of two companies, as the creation of the companies left
\* them.
InitBranches ==
    /\ db = <<>>
    /\ pc = [p \in Procs |-> "idle"]
    /\ self = [p \in Procs |-> None]
    /\ correlative = [p \in Procs |-> 0]
    /\ series = [p \in Procs |-> None]
    /\ response = [p \in Procs |-> None]
    /\ log = <<>>
    /\ initial = <<>>
    /\ call = [p \in Procs |-> NoCall]
    /\ form = UnboundForm(NoData)
    /\ users = <<>>
    /\ result = None
    /\ companies = <<CompanyRow([ruc |-> "20000000001", domain |-> "company-1",
                                 contact |-> TestContact]),
                     CompanyRow([ruc |-> "20000000002", domain |-> "company-2",
                                 contact |-> OtherContact])>>
    /\ branches = CreatePrincipalBranch(
                      CreatePrincipalBranch(<<>>, 1, companies[1], TRUE),
                      2, companies[2], TRUE)

NextBranches ==
    \/ \E company_pk \in 1..(MaxCompanies + 1), sunat_code \in BranchInputs :
           BranchCreate(company_pk, sunat_code)
    \/ \E pk \in 1..MaxBranches, sunat_code \in BranchInputs : BranchUpdate(pk, sunat_code)
    \/ \E pk \in 1..MaxBranches : BranchDelete(pk)

SpecBranches == InitBranches /\ [][NextBranches]_vars

\* ------------------------------------------------------ create requests
\* Create requests of one client for branches that exist, were removed or
\* never existed, with forms that validate and forms that do not.
RequestBranches == Branches \cup RemovedBranches \cup UnknownBranches
RequestData ==
    LifeData \cup
    {[document_type |-> "99", series_number |-> <<"F", "0", "0", "1">>,
      current_correlative |-> <<DefaultCorrelative>>],
     [document_type |-> "01", series_number |-> <<"B", "0", "0", "1">>,
      current_correlative |-> <<DefaultCorrelative>>]}

NextRequest ==
    \/ \E p \in Clients, c \in Companies, b \in RequestBranches, d \in RequestData :
           CreatePost(p, c, b, d)
    \/ \E p \in Clients : CreateInsert(p)
    \/ \E p \in Clients, c \in Companies, b \in Branches, pk \in 1..(MaxSeries + 1) :
           DeleteSeries(p, c, b, pk)

SpecRequest == Init /\ [][NextRequest]_vars

\* ------------------------------------------------------------------ users
\* Three users; 1 and 2 hold the permissions of user administration.
UserPks == 1..3
Anonymous == 0
Requesters == UserPks \cup {Anonymous}
UserModelPermissions ==
    [pk \in UserPks |->
        IF pk \in {1, 2} THEN {"users.change_user", "users.delete_user"} ELSE {}]

\* set_password(): the stored value is a hash of the raw password.
MakePassword(raw) == <<"hash", raw>>

Emails == [pk \in UserPks |-> <<"user", pk>>]

InitUsers ==
    /\ db = <<>>
    /\ pc = [p \in Procs |-> "idle"]
    /\ self = [p \in Procs |-> None]
    /\ correlative = [p \in Procs |-> 0]
    /\ series = [p \in Procs |-> None]
    /\ response = [p \in Procs |-> None]
    /\ log = <<>>
    /\ initial = <<>>
    /\ call = [p \in Procs |-> NoCall]
    /\ form = UnboundForm(NoData)
    /\ companies = <<>>
    /\ branches = <<>>
    /\ users = [pk \in UserPks |->
                   [first_name |-> "John", email |-> Emails[pk],
                    password |-> MakePassword("testpass123")]]
    /\ result = None

\* The user a request is made as has the permission.
UserHasPerm(requester, permission) ==
    requester \in DOMAIN users /\ permission \in UserModelPermissions[requester]

UserAnswer(op, by, status, message) ==
    [op |-> op, by |-> by, status |-> status, message |-> message]

\* user.delete()
DeleteUser(table, pk) == [k \in (DOMAIN table) \ {pk} |-> table[k]]

\* A view without the comparison.
IsNeverRequestUser(user, request_user) == FALSE

\* user == request.user
IsRequestUser(user, request_user) == user = request_user

\* UserDeleteView: LoginRequiredMixin, PermissionRequiredMixin, then post().
\* Http404 of get_object() is caught by the except clause like any error.
UserDeletePost(requester, target) ==
    /\ requester = Anonymous \/ requester \in DOMAIN users
    /\ IF requester = Anonymous
       THEN /\ result' = UserAnswer("delete", requester, 302, "login")
            /\ UNCHANGED users
       ELSE IF ~UserHasPerm(requester, "users.delete_user")
       THEN /\ result' = UserAnswer("delete", requester, 403, "forbidden")
            /\ UNCHANGED users
       ELSE IF target \notin DOMAIN users
       THEN /\ result' = UserAnswer("delete", requester, 302, "Error deleting user")
            /\ UNCHANGED users
       ELSE IF IsRequestUser(target, requester)
       THEN /\ result' = UserAnswer("delete", requester, 302, "You cannot delete your own account")
            /\ UNCHANGED users
       ELSE /\ users' = DeleteUser(users, target)
            /\ result' = UserAnswer("delete", requester, 302, "User deleted successfully")
    /\ UNCHANGED <<db, pc, self, correlative, series, response, log, initial, call, form,
                   companies, branches>>

\* validate_password(): the weak passwords of the tests fail.
WeakPasswords == {"123"}
ValidatePassword(password) == password \notin WeakPasswords

\* UserUpdateForm.clean: the error on confirm_password. The password is in
\* cleaned_data only if clean_password accepted it.
PasswordMismatch(data) ==
    /\ data.password # "" /\ ValidatePassword(data.password)
    /\ data.confirm_password # ""
    /\ data.password # data.confirm_password

\* The fields of UserUpdateForm with an error, for the instance pk.
UserFormErrors(table, pk, data) ==
    {f \in {"first_name"} : data.first_name = ""}
    \cup {f \in {"email"} :
            \E k \in (DOMAIN table) \ {pk} : table[k].email = data.email}
    \cup {f \in {"password"} :
            data.password # "" /\ ~ValidatePassword(data.password)}
    \cup {f \in {"confirm_password"} : PasswordMismatch(data)}

\* UserUpdateForm.save: the fields of the form, and set_password only if a
\* password was provided.
UserFormSave(row, data) ==
    [first_name |-> data.first_name,
     email |-> data.email,
     password |-> IF data.password # "" THEN MakePassword(data.password)
                  ELSE row.password]

UserUpdateInputs ==
    [first_name : {"Jane", ""},
     email : {Emails[1], Emails[2]},
     password : {"", "123", "NewSecurePass123!"},
     confirm_password : {"", "NewSecurePass123!", "DifferentPass123!"}]

\* UserUpdateView (UpdateView): the mixins, get_object(), the form, save().
UserUpdatePost(requester, target, data) ==
    /\ requester = Anonymous \/ requester \in DOMAIN users
    /\ IF requester = Anonymous
       THEN /\ result' = UserAnswer("update", requester, 302, "login")
            /\ UNCHANGED users
       ELSE IF ~UserHasPerm(requester, "users.change_user")
       THEN /\ result' = UserAnswer("update", requester, 403, "forbidden")
            /\ UNCHANGED users
       ELSE IF target \notin DOMAIN users
       THEN /\ result' = UserAnswer("update", requester, 404, "not found")
            /\ UNCHANGED users
       ELSE IF UserFormErrors(users, target, data) # {}
       THEN /\ result' = UserAnswer("update", requester, 200, UserFormErrors(users, target, data))
            /\ UNCHANGED users
       ELSE /\ users' = [users EXCEPT ![target] = UserFormSave(users[target], data)]
            /\ result' = UserAnswer("update", requester, 302, "User updated successfully")
    /\ UNCHANGED <<db, pc, self, correlative, series, response, log, initial, call, form,
                   companies, branches>>

NextUsers ==
    \/ \E requester \in Requesters, target \in UserPks : UserDeletePost(requester, target)
    \/ \E requester \in Requesters, target \in UserPks, data \in UserUpdateInputs :
           UserUpdatePost(requester, target, data)

SpecUsers == InitUsers /\ [][NextUsers]_vars

\* ================================================================= claims
\* Positions of the log that belong to row pk, in the order of return.
RECURSIVE Issued(_, _)
Issued(pk, n) ==
    IF n = 0 THEN <<>>
    ELSE IF log[n].series = pk THEN Append(Issued(pk, n - 1), log[n])
    ELSE Issued(pk, n - 1)

IssuedFor(pk) == Issued(pk, Len(log))

NoCallInProgress == \A p \in Procs : pc[p] \notin {"incr", "save"}

\* C1: two calls of get_next_correlative on the same series whose steps
\* interleaved never return the same correlative.
C1_NoDuplicateUnderInterleaving ==
    \A i, j \in 1..Len(log) :
        (i < j /\ log[i].series = log[j].series /\ log[i].by # log[j].by
           /\ log[i].raced /\ log[j].raced)
        => log[i].value # log[j].value

\* C2: once a set of concurrent calls has completed, the stored counter of
\* every series is its initial value plus the number of calls that returned.
C2_NoLostIncrement ==
    (NoCallInProgress /\ \E i \in 1..Len(log) : log[i].raced)
    => \A pk \in Pks : db[pk].current_correlative = initial[pk] + Len(IssuedFor(pk))

\* C3: calls on one series that never overlap return, in order, values each
\* one more than the one before, whichever instance made the call.
C3_SequentialGapless ==
    \A pk \in Pks :
        LET issued == IssuedFor(pk)
        IN  (\A k \in 1..Len(issued) : ~issued[k].raced)
            => \A k \in 1..(Len(issued) - 1) :
                   issued[k + 1].number = issued[k].number + 1

\* C4: the stored counter of a series never decreases in a step, and no
\* value is returned twice for a series.
C4_NeverDecreasesNeverReused ==
    [][/\ \A pk \in Pks : db'[pk].current_correlative >= db[pk].current_correlative
       /\ \A i, j \in 1..Len(log') :
              (i < j /\ log'[i].series = log'[j].series)
              => log'[i].value # log'[j].value]_vars

\* Value of a decimal string.
RECURSIVE ParseDecimal(_)
ParseDecimal(s) ==
    IF Len(s) = 0 THEN 0
    ELSE 10 * ParseDecimal(SubSeq(s, 1, Len(s) - 1))
         + (CHOOSE d \in 0..9 : DigitChar(d) = s[Len(s)])

\* A call of p returns in this step.
Returns(p) == pc[p] = "save" /\ pc'[p] = "idle"

\* C5: the k-th call through an instance loaded with counter c returns c+k-1
\* as an 8-character zero-padded decimal, and leaves c+k stored.
C5_SequentialThroughOneReference ==
    [][\A p \in Procs :
          Returns(p) =>
              LET c == self[p].loaded
                  k == self[p].calls + 1
                  e == log'[Len(log')]
              IN  /\ e.by = p /\ e.nth = k
                  /\ Len(e.value) = CorrelativeWidth
                  /\ \A i \in 1..Len(e.value) : e.value[i] \in Digits
                  /\ ParseDecimal(e.value) = c + k - 1
                  /\ db'[self[p].pk].current_correlative = c + k]_vars

\* C5 witness: three calls through one instance loaded at 5 returned
\* 00000005, 00000006, 00000007 and the row holds 8.
C5_Witness ==
    /\ Len(log) = 3
    /\ \A k \in 1..3 : log[k].by = "p1" /\ log[k].series = 1
                        /\ log[k].loaded = TestCorrelative /\ log[k].nth = k
    /\ log[1].value = <<"0", "0", "0", "0", "0", "0", "0", "5">>
    /\ log[2].value = <<"0", "0", "0", "0", "0", "0", "0", "6">>
    /\ log[3].value = <<"0", "0", "0", "0", "0", "0", "0", "7">>
    /\ db[1].current_correlative = 8
    /\ NoCallInProgress

\* C6: a call on a series that was removed when the call began returns no
\* value and changes no stored counter.
C6_RemovedSeriesNotFound ==
    [][\A p \in Procs :
          (Returns(p) /\ call[p].removed) => (db' = db /\ log' = log)]_vars

\* ------------------------------------------------------------- the registry
\* C7: no two rows that are not removed have the same
\* (branch, document_type, series_number).
C7_UniqueAmongActive ==
    \A i, j \in Pks :
        (i # j /\ ~db[i].is_removed /\ ~db[j].is_removed)
        => Triple(db[i]) # Triple(db[j])

\* C7 witness: a request for the triple of an active row reached the INSERT
\* and was turned down.
C7_Witness ==
    \E p \in Procs :
        /\ pc[p] = "idle" /\ series[p] # None /\ series[p].pk = 0
        /\ \E pk \in Pks : Active(pk) /\ Triple(db[pk]) = Triple(series[p])

\* The create request of p ends in this step with series.save().
Saves(p) == pc[p] = "insert" /\ pc'[p] = "idle"

\* C8: a create request for the triple of an active row ends with an error
\* response and leaves the table as it was.
C8_DuplicateRejected ==
    [][\A p \in Procs :
          (Saves(p) /\ \E pk \in Pks : Active(pk) /\ Triple(db[pk]) = Triple(series[p]))
          => /\ response'[p].op = "create"
             /\ response'[p].status = 400
             /\ db' = db
             /\ initial' = initial]_vars

\* C8 witness: the row was there when the request arrived (the sequence of
\* the view test), the response is the 400 of the IntegrityError branch.
C8_Witness ==
    \E p \in Procs :
        /\ pc[p] = "idle" /\ series[p] # None /\ series[p].pk = 0
        /\ response[p] = [op |-> "create", status |-> 400, body |-> "message"]
        /\ \E pk \in 1..series[p].seen :
               Active(pk) /\ Triple(db[pk]) = Triple(series[p])

\* C9: of two create requests for the same triple that have both ended, at
\* most one was saved, the other got no primary key, and the table holds
\* exactly one row with the triple.
C9_ConcurrentCreateOnce ==
    \A p, q \in Procs :
        (/\ p # q
         /\ pc[p] = "idle" /\ pc[q] = "idle"
         /\ series[p] # None /\ series[q] # None
         /\ Triple(series[p]) = Triple(series[q]))
        => /\ series[p].pk = 0 \/ series[q].pk = 0
           /\ Cardinality({pk \in Pks : Triple(db[pk]) = Triple(series[p])}) = 1

\* C9 witness: q's form was validated before p's row existed, p was saved
\* and q was answered 400.
C9_Witness ==
    \E p, q \in Procs :
        /\ p # q
        /\ pc[p] = "idle" /\ pc[q] = "idle"
        /\ series[p] # None /\ series[q] # None
        /\ Triple(series[p]) = Triple(series[q])
        /\ series[p].pk # 0 /\ series[q].pk = 0
        /\ series[q].seen < series[p].pk
        /\ series[p].seen < series[p].pk
        /\ response[q] = [op |-> "create", status |-> 400, body |-> "message"]

\* 1 letter + 3 digits.
WellFormed(code) ==
    /\ Len(code) = 4
    /\ code[1] \in UpperLetters \cup LowerLetters
    /\ \A i \in 2..4 : code[i] \in Digits

\* The first letters the naming rule allows per document type.
AllowedLetters(document_type) ==
    CASE document_type = "01" -> {"F"}
      [] document_type = "03" -> {"B"}
      [] document_type \in {"07", "08"} -> {"F", "B"}
      [] document_type = "09" -> {"T"}

\* C10: for a document type and a code that is well-formed once uppercased
\* (the correlative field being acceptable), the form is valid exactly when
\* the first letter is allowed for the type; otherwise clean() has raised.
C10_PrefixRule ==
    (/\ form.checked
     /\ form.data.document_type \in DocumentTypeChoices
     /\ WellFormed(Upper(form.data.series_number))
     /\ "current_correlative" \notin FieldErrors(form.data))
    => LET allowed == Upper(form.data.series_number)[1]
                          \in AllowedLetters(form.data.document_type)
       IN  /\ form.is_valid <=> allowed
           /\ ~allowed => "__all__" \in form.errors

\* C10 witnesses: a credit note with a B code was accepted.
C10_Witness ==
    /\ form.checked
    /\ form.data.document_type = "07"
    /\ form.data.series_number = <<"B", "0", "0", "0">>
    /\ form.is_valid

\* ------------------------------------------------------ the form, one request
F001 == <<"F", "0", "0", "1">>

\* C11: a code that is not 1 letter + 3 digits (wrong length, first character
\* not a letter, or a non-digit among the last three) makes the form invalid,
\* and every row the view saves has a code of that shape.
C11_MalformedCodeRejected ==
    /\ (form.checked /\ ~WellFormed(form.data.series_number))
       => (~form.is_valid /\ form.errors # {})
    /\ \A pk \in Pks : WellFormed(db[pk].series_number)

\* C11 witness: the invoice code F01 (3 characters) was rejected by clean(),
\* nothing was saved.
C11_Witness ==
    /\ form.checked
    /\ form.data = [document_type |-> "01", series_number |-> <<"F", "0", "1">>,
                    current_correlative |-> <<1>>]
    /\ ~form.is_valid /\ form.errors = {"__all__"}
    /\ db = <<>>

\* C12: the code is uppercased before the rules apply and stored uppercased:
\* f001 for an invoice is valid and cleaned to F001, no cleaned code of a
\* valid form and no stored code contains a lowercase letter.
C12_StoredUppercase ==
    /\ (form.checked /\ form.data.document_type = "01"
          /\ form.data.series_number = <<"f", "0", "0", "1">>
          /\ "current_correlative" \notin FieldErrors(form.data))
       => (form.is_valid /\ form.series_number = F001)
    /\ (form.checked /\ form.is_valid)
       => \A i \in 1..Len(form.series_number) : form.series_number[i] \notin LowerLetters
    /\ \A pk \in Pks : \A i \in 1..Len(db[pk].series_number) :
           db[pk].series_number[i] \notin LowerLetters

\* C12 witness: f001 was submitted for an invoice and the row holds F001.
C12_Witness ==
    /\ form.data.document_type = "01"
    /\ form.data.series_number = <<"f", "0", "0", "1">>
    /\ Len(db) = 1 /\ db[1].series_number = F001 /\ db[1].document_type = "01"

\* C13: a starting correlative below 1 is rejected and every stored counter
\* is at least 1.
C13_CounterAtLeastOne ==
    /\ (form.checked /\ Len(form.data.current_correlative) = 1
          /\ form.data.current_correlative[1] < 1)
       => ~form.is_valid
    /\ \A pk \in Pks : db[pk].current_correlative >= 1

\* C14 as claimed: valid type and code without a starting correlative make a
\* valid form.
C14_DefaultWhenOmitted ==
    (/\ form.checked
     /\ form.data.document_type \in DocumentTypeChoices
     /\ WellFormed(Upper(form.data.series_number))
     /\ Upper(form.data.series_number)[1] \in AllowedLetters(form.data.document_type)
     /\ form.data.current_correlative = <<>>)
    => form.is_valid

\* C14 amended: a form without current_correlative is invalid with an error
\* on that field, and nothing is saved.
C14_CorrelativeRequired ==
    (form.checked /\ form.data.current_correlative = <<>>)
    => (~form.is_valid /\ "current_correlative" \in form.errors /\ db = <<>>)

\* C14 witness: invoice F001 without a correlative; the only error is the
\* missing field.
C14_Witness ==
    /\ form.checked
    /\ form.data = [document_type |-> "01", series_number |-> F001,
                    current_correlative |-> <<>>]
    /\ ~form.is_valid /\ form.errors = {"current_correlative"}
    /\ db = <<>>

\* ------------------------------------------------- the life of the series
\* C15: every value get_next_correlative returned is a string of exactly 8
\* decimal digits.
C15_AlwaysEightCharacters ==
    \A i \in 1..Len(log) :
        /\ Len(log[i].value) = CorrelativeWidth
        /\ \A k \in 1..Len(log[i].value) : log[i].value[k] \in Digits

\* Rows of the table that a step changes.
Touched == {pk \in Pks : db'[pk] # db[pk]}

\* C16: registering a series, allocating from a series and deleting a series
\* leave every other row as it was; no step drops a row.
C16_OtherSeriesUnchanged ==
    [][/\ Len(db') >= Len(db)
       /\ \A p \in Procs :
            /\ Saves(p) => Touched = {}
            /\ Returns(p) => Touched \subseteq {self[p].pk}
            /\ \A c \in Companies, b \in Branches, pk \in 1..(MaxSeries + 1) :
                   DeleteSeries(p, c, b, pk) => Touched \subseteq {pk}]_vars

\* Two series, one allocated from and removed, the other as registered.
C16_Witness ==
    /\ Len(db) = 2
    /\ \E i \in 1..Len(log) : log[i].series = 1
    /\ db[1].is_removed
    /\ db[2] = RegisteredRow("b1", "03", <<"B", "0", "0", "1">>, DefaultCorrelative)

\* The save of a delete request of p that found row pk.
Deletes(p, pk) == pc[p] = "delete" /\ pc'[p] = "idle" /\ series[p].pk = pk

\* C17: a registered row keeps its branch, document type and code; its
\* counter changes only in the save of a get_next_correlative call on that
\* row, its removed flag only in the save of a delete request for that row.
C17_MutatedOnlyByAllocatorAndDelete ==
    [][\A pk \in Pks :
          /\ Triple(db'[pk]) = Triple(db[pk])
          /\ db'[pk].current_correlative # db[pk].current_correlative =>
                 \E p \in Procs : Returns(p) /\ self[p].pk = pk
          /\ db'[pk].is_removed # db[pk].is_removed =>
                 \E p \in Procs : Deletes(p, pk)]_vars

\* ------------------------------------------------------ the two views
DeleteOk(p) == response'[p] = [op |-> "delete", status |-> 200, body |-> "message"]
DeleteNotFound(p) == response'[p] = [op |-> "delete", status |-> 404, body |-> "message"]

\* The id names a row of the branch, and the branch is of the company.
Names(company_pk, branch_pk, pk) ==
    /\ pk \in Pks
    /\ db[pk].branch = branch_pk
    /\ BranchCompany[branch_pk] = company_pk

C19_DeleteUnresolvedNotFound ==
    [][\A p \in Procs, c \in Companies, b \in Branches, pk \in 1..(MaxSeries + 1) :
          (DeleteSeries(p, c, b, pk) /\ ~(Names(c, b, pk) /\ ~db[pk].is_removed)) =>
              /\ DeleteNotFound(p)
              /\ db' = db]_vars

\* A delete request answered 404 while every series is active.
C19_Witness ==
    /\ Len(db) >= 1
    /\ \A pk \in Pks : ~db[pk].is_removed
    /\ response["p1"] = [op |-> "delete", status |-> 404, body |-> "message"]

\* The answer of the gate to a user it turns away.
Rejected(p, user, op) ==
    response'[p] = [op |-> op,
                    status |-> IF user = "anonymous" THEN 302 ELSE 403,
                    body |-> "none"]

\* C20: a create or delete request of a user without add_documentseries or
\* delete_documentseries is answered with 302 or 403, starts no operation
\* and leaves the table as it was.
C20_PermissionGate ==
    [][\A p \in Clients, u \in Users, c \in Companies, b \in Branches :
          /\ "customers.add_documentseries" \notin UserPermissions[u] =>
                 \A d \in LifeData :
                     CreateRequest(p, u, c, b, d) =>
                         Rejected(p, u, "create") /\ db' = db /\ pc'[p] = "idle"
          /\ "customers.delete_documentseries" \notin UserPermissions[u] =>
                 \A pk \in 1..(MaxSeries + 1) :
                     DeleteRequest(p, u, c, b, pk) =>
                         Rejected(p, u, "delete") /\ db' = db /\ pc'[p] = "idle"]_vars

\* A delete request turned away with 403 while an active series exists.
C20_Witness ==
    /\ \E pk \in Pks : ~db[pk].is_removed
    /\ response["p1"] = [op |-> "delete", status |-> 403, body |-> "none"]

\* ------------------------------------------------------------ contention
\* C21: a call that ran beside another call on the same series ends with a
\* correlative only if the stored counter is still the one it read; a call
\* that lost the race retries or fails, it does not return its first read.
C21_ConflictRetriedOrRefused ==
    [][\A p \in Procs :
          (Returns(p) /\ call[p].raced) =>
              db[self[p].pk].current_correlative = correlative[p]]_vars

\* ------------------------------------------------------ branches apart
\* The type and code of r are those of the instance, its branch is another.
SameCodeOtherBranch(r, instance) ==
    /\ r.document_type = instance.document_type
    /\ r.series_number = instance.series_number
    /\ r.branch # instance.branch

\* C22: a create request whose (document_type, series_number) exists only
\* under other branches is saved: the row is added and the answer is 200.
C22_SameCodeInTwoBranches ==
    [][\A p \in Procs :
          (/\ Saves(p)
           /\ \E pk \in Pks : SameCodeOtherBranch(db[pk], series[p])
           /\ \A pk \in Pks : Triple(db[pk]) # Triple(series[p]))
          => /\ Len(db') = Len(db) + 1
             /\ Triple(db'[Len(db')]) = Triple(series[p])
             /\ response'[p] = [op |-> "create", status |-> 200, body |-> "series"]]_vars

\* Two active series of one type and code, one in each branch.
C22_Witness ==
    \E i, j \in Pks :
        /\ SameCodeOtherBranch(db[i], db[j])
        /\ ~db[i].is_removed /\ ~db[j].is_removed

\* ------------------------------------------------ companies and branches
\* The branches of company pk in a branch table.
BranchesOf(table, pk) == {b \in 1..Len(table) : table[b].company = pk}

\* C23: the step that adds a company adds exactly one branch, the only one
\* of that company, named Principal, with code 0000 and the address, phone
\* and email of the company; a step that adds no company (an existing one
\* saved again, or removed) leaves the branches as they were.
C23_PrincipalBranchOnCreation ==
    [][/\ Len(companies') = Len(companies) + 1 =>
            /\ Len(branches') = Len(branches) + 1
            /\ BranchesOf(branches', Len(companies')) = {Len(branches')}
            /\ LET company == companies'[Len(companies')]
                   branch == branches'[Len(branches')]
               IN  /\ branch.name = "Principal"
                   /\ branch.sunat_code = <<"0", "0", "0", "0">>
                   /\ branch.address = company.address
                   /\ branch.phone = company.phone
                   /\ branch.email = company.email
            /\ \A b \in BranchPks : branches'[b] = branches[b]
       /\ Len(companies') = Len(companies) => branches' = branches]_vars

\* Two companies, the second saved again with other contact data than its
\* branch got, each with its one branch.
C23_Witness ==
    /\ Len(companies) = 2
    /\ result = Answer("company_update", "none")
    /\ companies[2].address # branches[2].address
    /\ \A pk \in CompanyPks : Cardinality(BranchesOf(branches, pk)) = 1

\* C24: no two branches of one company have the same sunat_code.
C24_UniqueSunatCodePerCompany ==
    \A i, j \in BranchPks :
        (i # j /\ branches[i].company = branches[j].company)
        => branches[i].sunat_code # branches[j].sunat_code

\* A branch was refused for its code while a Principal branch has 0000 and
\* 0001 exists under both companies.
C24_Witness ==
    /\ result = Answer("branch_create", "IntegrityError")
    /\ \E i, j \in BranchPks :
           /\ branches[i].company # branches[j].company
           /\ branches[i].sunat_code = <<"0", "0", "0", "1">>
           /\ branches[j].sunat_code = <<"0", "0", "0", "1">>
    /\ \E b \in BranchPks :
           branches[b].name = "Principal" /\ branches[b].sunat_code = <<"0", "0", "0", "0">>

\* Some company that is not removed has the ruc or the domain of data.
TakenByActive(data) ==
    \E k \in CompanyPks :
        /\ ~companies[k].is_removed
        /\ (companies[k].ruc = data.ruc \/ companies[k].domain = data.domain)

\* C25: after every step no two companies that are not removed share a ruc
\* or share a domain; creating a company with the ruc or domain of one that
\* is not removed fails and adds nothing; creating one with a ruc and domain
\* that only removed companies have succeeds.
C25_UniqueRucAndDomainAmongActive ==
    [][/\ \A i, j \in 1..Len(companies') :
            (i # j /\ ~companies'[i].is_removed /\ ~companies'[j].is_removed)
            => /\ companies'[i].ruc # companies'[j].ruc
               /\ companies'[i].domain # companies'[j].domain
       /\ \A data \in CompanyInputs :
            /\ (CompanyCreate(data) /\ TakenByActive(data)) =>
                   /\ companies' = companies
                   /\ result' = Answer("company_create", "IntegrityError")
            /\ (CompanyCreate(data) /\ ~TakenByActive(data)) =>
                   /\ Len(companies') = Len(companies) + 1
                   /\ result' = Answer("company_create", "none")]_vars

\* A company created with the ruc and domain of a removed one.
C25_Witness ==
    \E i, j \in CompanyPks :
        /\ i # j
        /\ companies[i].is_removed /\ ~companies[j].is_removed
        /\ companies[i].ruc = companies[j].ruc
        /\ companies[i].domain = companies[j].domain

C27_PasswordNeedsConfirmation ==
    [][\A requester \in Requesters, target \in DOMAIN users, data \in UserUpdateInputs :
          UserUpdatePost(requester, target, data) =>
              /\ (data.password # "" /\ data.password # data.confirm_password) =>
                     users' = users
              /\ data.password = "" => users'[target].password = users[target].password
              /\ users'[target].password # users[target].password =>
                     /\ data.password # ""
                     /\ data.confirm_password = data.password
                     /\ users'[target].password = MakePassword(data.password)]_vars

\* ------------------------------------------------------- removed series
\* C28: a create request whose (branch, document_type, series_number) is
\* that of a removed row is refused with 400 and adds no row.
C28_RemovedTripleStillTaken ==
    [][\A p \in Procs :
          (/\ Saves(p)
           /\ \E pk \in Pks : db[pk].is_removed /\ Triple(db[pk]) = Triple(series[p]))
          => /\ response'[p] = [op |-> "create", status |-> 400, body |-> "message"]
             /\ db' = db]_vars

\* The only row is removed and a create request was refused after it.
C28_Witness ==
    /\ Len(db) = 1
    /\ db[1].is_removed
    /\ \E p \in Procs :
           /\ response[p] = [op |-> "create", status |-> 400, body |-> "message"]
           /\ series[p] # None
           /\ Triple(series[p]) = Triple(db[1])

\* C29: a removed series stays removed in every step of registration,
\* get_next_correlative and deletion.
C29_RemovalIsPermanent ==
    [][\A pk \in Pks : db[pk].is_removed => db'[pk].is_removed]_vars

\* get_next_correlative was called on a removed row through a reference
\* obtained before: the counter moved, the row is still removed.
C29_Witness ==
    \E i \in 1..Len(log) :
        /\ log[i].removed
        /\ db[log[i].series].is_removed
        /\ db[log[i].series].current_correlative = log[i].number + 1

\* C30: a create request whose branch is not an existing branch of the
\* company of the request is answered 404, stages no series and adds no
\* row, whatever the form.
C30_UnresolvedBranchNotFound ==
    [][\A p \in Clients, c \in Companies, b \in RequestBranches, d \in RequestData :
          (/\ CreatePost(p, c, b, d)
           /\ (b \notin Branches \/ BranchCompany[b] # c))
          => /\ response'[p] = [op |-> "create", status |-> 404, body |-> "message"]
             /\ db' = db
             /\ pc'[p] = "idle"
             /\ series' = series]_vars

\* A request was answered 404 after one series had been registered.
C30_Witness ==
    /\ response["p1"] = [op |-> "create", status |-> 404, body |-> "message"]
    /\ pc["p1"] = "idle"
    /\ Len(db) = 1
    /\ ~db[1].is_removed

====
